---- MODULE Spec2Model ----
(***************************************************************************)
(* Model of the SPIMEX trading-results service (em_fastapi):               *)
(*   - TradingResultsRepo (src/src/core/repository/trading_results_repo.py)*)
(*   - CRUDSpimexTradingResults (src/src/core/crud/crud_trading_results.py)*)
(*   - get_session (src/src/deps/deps.py)                                  *)
(* Dates are calendar records, "YYYYMMDD" strings are sequences of digit   *)
(* characters, a spreadsheet is a sequence of rows of typed cells.         *)
(***************************************************************************)
EXTENDS Integers, Sequences, FiniteSets, TLC

VARIABLES
    today,      \* the calendar date datetime.now().date() returns
    files,      \* working directory: "YYYYMMDD" -> <date>_oil_data.xls (its rows' kinds), or NoFile
    store,      \* committed rows of table spimex_trading_results
    pc,         \* per request: where get_spimex_trading_results stands
    target,     \* per request: target_date
    date_list,  \* per request: the window of "YYYYMMDD" strings
    dlpos,      \* per request: next index of date_list the client downloads
    downloaded, \* per request: the date strings whose bulletin it downloaded
    objects,    \* per request: the records __prepare_objects built
    pending,    \* per request: records added to its AsyncSession, not committed
    outcome,    \* per request: what the caller received
    raised,     \* per request: the exception raised inside the try block
    psheet,     \* parser harness: the bulletin sheet under test (its rows' kinds)
    presult,    \* parser harness: result of __prepare_objects on psheet
    wtarget,    \* window harness: the target_date under test
    wlist,      \* window harness: result of __prepare_date_list
    wdone,      \* window harness: whether wlist has been computed
    qres        \* read side: the read query in flight and its response

vars == <<today, files, store, pc, target, date_list, dlpos, downloaded, objects,
          pending, outcome, raised, psheet, presult,
          wtarget, wlist, wdone, qres>>

runVars == <<files, store, pc, target, date_list, dlpos, downloaded, objects,
             pending, outcome, raised>>

----------------------------------------------------------------------------
(* Bounds of the model *)

MaxBack == 1
MaxSpan == 62
MaxAhead == 2
MaxRows == 6

----------------------------------------------------------------------------
(* Calendar: datetime.date, timedelta(days=1), str(date), strptime *)

BaseDay == [y |-> 2024, m |-> 3, d |-> 1]

IsLeap(y) == (y % 4 = 0 /\ y % 100 # 0) \/ y % 400 = 0

DaysInMonth(y, m) ==
    IF m = 2 THEN (IF IsLeap(y) THEN 29 ELSE 28)
    ELSE IF m \in {4, 6, 9, 11} THEN 30 ELSE 31

RECURSIVE DaysBeforeMonth(_, _)
DaysBeforeMonth(y, m) ==
    IF m = 1 THEN 0 ELSE DaysBeforeMonth(y, m - 1) + DaysInMonth(y, m - 1)

\* date.toordinal(): the proleptic Gregorian ordinal
Ordinal(dt) ==
    LET py == dt.y - 1
    IN  365 * py + (py \div 4) - (py \div 100) + (py \div 400)
            + DaysBeforeMonth(dt.y, dt.m) + dt.d

\* current_date - timedelta(days=1)
PrevDay(dt) ==
    IF dt.d > 1 THEN [dt EXCEPT !.d = dt.d - 1]
    ELSE IF dt.m > 1
         THEN [y |-> dt.y, m |-> dt.m - 1, d |-> DaysInMonth(dt.y, dt.m - 1)]
         ELSE [y |-> dt.y - 1, m |-> 12, d |-> 31]

\* current_date >= target_date
DateGE(a, b) ==
    \/ a.y > b.y
    \/ a.y = b.y /\ a.m > b.m
    \/ a.y = b.y /\ a.m = b.m /\ a.d >= b.d

DigitChar(k) == <<"0", "1", "2", "3", "4", "5", "6", "7", "8", "9">>[k + 1]

IsDigit(c) == c \in {"0", "1", "2", "3", "4", "5", "6", "7", "8", "9"}

DigitVal(c) == CHOOSE k \in 0..9 : DigitChar(k) = c

RECURSIVE ZeroPad(_, _)
\* n written with exactly w decimal digits
ZeroPad(n, w) ==
    IF w = 0 THEN <<>> ELSE Append(ZeroPad(n \div 10, w - 1), DigitChar(n % 10))

\* str(current_date).replace("-", ""): "YYYY-MM-DD" without the dashes
FormatDate(dt) == ZeroPad(dt.y, 4) \o ZeroPad(dt.m, 2) \o ZeroPad(dt.d, 2)

RECURSIVE DigitsVal(_)
DigitsVal(s) ==
    IF s = <<>> THEN 0
    ELSE 10 * DigitsVal(SubSeq(s, 1, Len(s) - 1)) + DigitVal(s[Len(s)])

\* datetime.strptime(str_date, "%Y%m%d").date()
ParseDate(str) ==
    [y |-> DigitsVal(SubSeq(str, 1, 4)),
     m |-> DigitsVal(SubSeq(str, 5, 6)),
     d |-> DigitsVal(SubSeq(str, 7, 8))]

ValidDate(dt) == dt.m \in 1..12 /\ dt.d \in 1..DaysInMonth(dt.y, dt.m)

\* the calendar dates between lo days before and hi days after BaseDay
DaysAround(lo, hi) ==
    {dt \in [y : {2023, 2024}, m : 1..12, d : 1..31] :
        /\ ValidDate(dt)
        /\ Ordinal(dt) >= Ordinal(BaseDay) - lo
        /\ Ordinal(dt) <= Ordinal(BaseDay) + hi}

\* the target dates of the ingestion requests: MaxBack days back, one day ahead
AllDates == DaysAround(MaxBack, 1)

\* the dates the window harness draws "today" and the target date from
WindowDays == DaysAround(MaxSpan, MaxAhead)

DateStrs == {FormatDate(dt) : dt \in AllDates}

RECURSIVE DateLoop(_, _, _)
DateLoop(current_date, target_date, acc) ==
    IF DateGE(current_date, target_date)
    THEN DateLoop(PrevDay(current_date), target_date,
                  Append(acc, FormatDate(current_date)))
    ELSE acc

\* mutant of PrepareDateList: the loop stops before the target date (>)
PrepareDateListExclusive(target_date, now) ==
    LET full == DateLoop(now, target_date, <<>>)
    IN  SubSeq(full, 1, Len(full) - 1)

\* TradingResultsRepo.__prepare_date_list
PrepareDateList(target_date, now) == DateLoop(now, target_date, <<>>)

----------------------------------------------------------------------------
(* Spreadsheet cells as pandas.read_excel delivers them: a text cell (never *)
(* the empty text, which read_excel reads as missing), a number, or NaN.    *)

StrCell(s) == [t |-> "str", s |-> s, n |-> 0]
IntCell(n) == [t |-> "int", s |-> <<>>, n |-> n]
NaN == [t |-> "nan", s |-> <<>>, n |-> 0]

\* the marker text "Единица измерения: Метрическая тонна", abbreviated
Marker == <<"M", "T">>

\* Python's `sub in text` for two strings
Contains(sub, text) ==
    \E k \in 0..(Len(text) - Len(sub)) : SubSeq(text, k + 1, k + Len(sub)) = sub

\* `Marker in row.iloc[1]`: a str cell is searched; a number or NaN raises
\* TypeError, which the scan swallows (lines 85-90)
IsAnchorRow(row) == row[2].t = "str" /\ Contains(Marker, row[2].s)

\* lines 83-90: index of the first anchor row, 0 when there is none
FindTarget(df) ==
    IF \E i \in 1..Len(df) : IsAnchorRow(df[i])
    THEN (CHOOSE i \in 1..Len(df) :
             IsAnchorRow(df[i]) /\ \A j \in 1..(i - 1) : ~IsAnchorRow(df[j])) - 1
    ELSE 0

\* df.iloc[lo:] (zero-based lo)
ILocFrom(df, lo) == SubSeq(df, lo + 1, Len(df))

\* df.iloc[:-k]
ILocDropLast(df, k) == SubSeq(df, 1, Len(df) - k)

\* the column selection [1, 2, 3, 4, 5, -1] of one row
SelectCols(row) == <<row[2], row[3], row[4], row[5], row[6], row[Len(row)]>>

\* mutant of ReplaceDash: the placeholder is left as it is
ReplaceDashForgotten(c) == c

\* df.replace("-", 0) on one cell
ReplaceDash(c) == IF c = StrCell(<<"-">>) THEN IntCell(0) ELSE c

\* df.fillna(0) on one cell
FillNa(c) == IF c.t = "nan" THEN IntCell(0) ELSE c

\* lines 93-94 on one row
NormalizeRow(row) == [i \in 1..Len(row) |-> FillNa(ReplaceDash(row[i]))]

\* int(text): an optional sign and at least one digit
IsIntText(s) ==
    LET body == IF Len(s) > 0 /\ s[1] \in {"-", "+"} THEN SubSeq(s, 2, Len(s)) ELSE s
    IN  Len(body) > 0 /\ \A i \in 1..Len(body) : IsDigit(body[i])

IntOfText(s) ==
    IF s[1] = "-" THEN 0 - DigitsVal(SubSeq(s, 2, Len(s)))
    ELSE IF s[1] = "+" THEN DigitsVal(SubSeq(s, 2, Len(s)))
    ELSE DigitsVal(s)

\* astype(int) on one cell of an object column: can it be converted
CanAsInt(c) == c.t = "int" \/ (c.t = "str" /\ IsIntText(c.s))

\* astype(int) on one cell
AsInt(c) == IF c.t = "int" THEN c.n ELSE IntOfText(c.s)

\* the rows of seq that satisfy Keep(_), in order
RECURSIVE SelectRows(_, _)
SelectRows(rows, keep) ==
    IF rows = <<>> THEN <<>>
    ELSE IF keep[1] THEN <<rows[1]>> \o SelectRows(Tail(rows), Tail(keep))
    ELSE SelectRows(Tail(rows), Tail(keep))

\* mutant of CountFilter: the comparison is >= 0
CountFilterNonNegative(rows) ==
    SelectRows(rows, [i \in 1..Len(rows) |-> AsInt(rows[i][6]) >= 0])

\* line 95: df[df.iloc[:, -1].astype(int) > 0]
CountFilter(rows) ==
    SelectRows(rows, [i \in 1..Len(rows) |-> AsInt(rows[i][6]) > 0])

\* mutant of SliceSheet: the slice starts at target + 1
SliceSheetFromNextRow(df) ==
    LET cut == ILocDropLast(ILocFrom(df, FindTarget(df) + 1), 2)
    IN  [i \in 1..Len(cut) |-> NormalizeRow(SelectCols(cut[i]))]

\* lines 91-94: the normalized six-column slice of one sheet
SliceSheet(df) ==
    LET cut == ILocDropLast(ILocFrom(df, FindTarget(df) + 2), 2)
    IN  [i \in 1..Len(cut) |-> NormalizeRow(SelectCols(cut[i]))]

\* lines 82-97 for one file: the rows yielded, or the ValueError astype raises
ParseSheet(df) ==
    LET norm == SliceSheet(df)
    IN  IF \A i \in 1..Len(norm) : CanAsInt(norm[i][6])
        THEN [err |-> "none", rows |-> CountFilter(norm)]
        ELSE [err |-> "ValueError", rows |-> <<>>]

----------------------------------------------------------------------------
(* Bulletin rows the model draws sheets from.  A sheet row has eight        *)
(* columns: 0 (row number), 1 product code, 2 product name, 3 basis name,   *)
(* 4 volume, 5 total, 6 (price columns, unused), 7 = last: contract count.  *)

MkRow(code, volume, total, count) ==
    <<NaN, code, StrCell(<<"o", "i", "l">>), StrCell(<<"b", "s">>),
      volume, total, IntCell(9), count>>

\* the caption row that holds the marker; its count cell is the placeholder
RMarker == MkRow(StrCell(<<"U", "M", "T">>), NaN, NaN, StrCell(<<"-">>))
\* a blank row
RBlank == <<NaN, NaN, NaN, NaN, NaN, NaN, NaN, NaN>>
\* a traded instrument: placeholder volume, missing total, text count 2
RGood == MkRow(StrCell(<<"A", "1", "0", "0", "N", "V", "Y", "F">>),
               StrCell(<<"-">>), NaN, StrCell(<<"2">>))
\* an instrument whose code has two characters, numeric count 3
RShort == MkRow(StrCell(<<"A", "B">>), StrCell(<<"7">>), StrCell(<<"-">>), IntCell(3))
\* a numeric product code and a negative count
RNeg == MkRow(IntCell(7), IntCell(12), IntCell(5), StrCell(<<"-", "1">>))
\* a missing product code on a traded row
RNoCode == MkRow(NaN, StrCell(<<"4">>), StrCell(<<"8">>), StrCell(<<"1">>))
\* a count cell that is no number
RBadCount == MkRow(StrCell(<<"D", "T", "0", "1", "J">>), NaN, NaN, StrCell(<<"x">>))

\* instruments whose codes have five and seven characters
RFive == MkRow(StrCell(<<"D", "T", "0", "1", "J">>), IntCell(30), StrCell(<<"9", "0">>), StrCell(<<"+", "4">>))
RSeven == MkRow(StrCell(<<"A", "5", "9", "2", "U", "F", "M">>), NaN, StrCell(<<"-">>), IntCell(1))

\* the rows sheets are made of, by kind
RowTable == <<RMarker, RBlank, RGood, RShort, RNeg, RNoCode, RBadCount, RFive, RSeven>>

\* the sheet whose rows have the kinds kinds[1], kinds[2], ...
SheetOf(kinds) == [i \in 1..Len(kinds) |-> RowTable[kinds[i]]]

\* pd.read_excel(f"{str_date}_oil_data.xls")
ReadExcel(file) == SheetOf(file.kinds)

----------------------------------------------------------------------------
(* SpimexTradingResults records *)

Min(a, b) == IF a < b THEN a ELSE b

\* text[lo:hi] of Python (zero-based, clipped to the text)
PySlice(text, lo, hi) == SubSeq(text, lo + 1, Min(hi, Len(text)))

RECURSIVE NatText(_)
NatText(n) == IF n < 10 THEN <<DigitChar(n)>> ELSE Append(NatText(n \div 10), DigitChar(n % 10))

\* str(value) of a cell value
PyStr(c) ==
    IF c.t = "str" THEN c.s
    ELSE IF c.t = "nan" THEN <<"n", "a", "n">>
    ELSE IF c.n < 0 THEN <<"-">> \o NatText(0 - c.n)
    ELSE NatText(c.n)

\* lines 111-122: can the record be built; data[0][:4] needs a subscriptable
\* data[0] (TypeError on a number), data[0][-1] a non-empty one (IndexError)
BuildError(data) ==
    IF data[1].t # "str" THEN "TypeError"
    ELSE IF Len(data[1].s) = 0 THEN "IndexError"
    ELSE "none"

\* mutant of BuildRecord: the delivery basis is cut at one-based positions 5-7
\* read as zero-based ([5:8])
BuildRecordBasisShifted(data, str_date) ==
    [exchange_product_id   |-> PyStr(data[1]),
     exchange_product_name |-> PyStr(data[2]),
     oil_id                |-> PySlice(data[1].s, 0, 4),
     delivery_basis_id     |-> PySlice(data[1].s, 5, 8),
     delivery_basis_name   |-> PyStr(data[3]),
     delivery_type_id      |-> <<data[1].s[Len(data[1].s)]>>,
     volume                |-> PyStr(data[4]),
     total                 |-> PyStr(data[5]),
     count                 |-> PyStr(data[6]),
     date                  |-> ParseDate(str_date)]

\* lines 111-122: the record of one yielded row
BuildRecord(data, str_date) ==
    [exchange_product_id   |-> PyStr(data[1]),
     exchange_product_name |-> PyStr(data[2]),
     oil_id                |-> PySlice(data[1].s, 0, 4),
     delivery_basis_id     |-> PySlice(data[1].s, 4, 7),
     delivery_basis_name   |-> PyStr(data[3]),
     delivery_type_id      |-> <<data[1].s[Len(data[1].s)]>>,
     volume                |-> PyStr(data[4]),
     total                 |-> PyStr(data[5]),
     count                 |-> PyStr(data[6]),
     date                  |-> ParseDate(str_date)]

\* os.path.exists(f"{str_date}_oil_data.xls") is False / the file holds the
\* sheet whose rows have the kinds `kinds`
NoFile == [exists |-> FALSE, kinds |-> <<>>]
File(kinds) == [exists |-> TRUE, kinds |-> kinds]

RECURSIVE BuildRows(_, _, _)
\* the loop body of __prepare_objects over the rows one file yields
BuildRows(rows, str_date, acc) ==
    IF rows = <<>> THEN [err |-> "none", objects |-> acc]
    ELSE IF BuildError(rows[1]) # "none"
         THEN [err |-> BuildError(rows[1]), objects |-> acc]
         ELSE BuildRows(Tail(rows), str_date, Append(acc, BuildRecord(rows[1], str_date)))

RECURSIVE PrepareLoop(_, _, _)
\* mutant of PrepareLoop: read_excel is called without the os.path.exists test
PrepareLoopMissingRaises(dates, fs, acc) ==
    IF dates = <<>> THEN [err |-> "none", objects |-> acc]
    ELSE IF ~fs[dates[1]].exists THEN [err |-> "FileNotFoundError", objects |-> acc]
    ELSE LET parsed == ParseSheet(ReadExcel(fs[dates[1]]))
         IN  IF parsed.err # "none" THEN [err |-> parsed.err, objects |-> acc]
             ELSE LET built == BuildRows(parsed.rows, dates[1], acc)
                  IN  IF built.err # "none" THEN built
                      ELSE PrepareLoop(Tail(dates), fs, built.objects)

\* lines 80-97 and 110-123 over the dates of the window, in order
PrepareLoop(dates, fs, acc) ==
    IF dates = <<>> THEN [err |-> "none", objects |-> acc]
    ELSE IF ~fs[dates[1]].exists THEN PrepareLoop(Tail(dates), fs, acc)
    ELSE LET parsed == ParseSheet(ReadExcel(fs[dates[1]]))
         IN  IF parsed.err # "none" THEN [err |-> parsed.err, objects |-> acc]
             ELSE LET built == BuildRows(parsed.rows, dates[1], acc)
                  IN  IF built.err # "none" THEN built
                      ELSE PrepareLoop(Tail(dates), fs, built.objects)

\* TradingResultsRepo.__prepare_objects driving __get_data_from_excel:
\* the objects, or the exception that ended the loop
PrepareObjects(dates, fs) == PrepareLoop(dates, fs, <<>>)

\* mutant of RemoveExcel: the loop leaves after the first date
RemoveExcelFirstOnly(dates, fs) ==
    [f \in DOMAIN fs |->
        IF Len(dates) > 0 /\ dates[1] = f THEN NoFile ELSE fs[f]]

\* TradingResultsRepo.__remove_excel
RemoveExcel(dates, fs) ==
    [f \in DOMAIN fs |->
        IF \E i \in 1..Len(dates) : dates[i] = f THEN NoFile ELSE fs[f]]

----------------------------------------------------------------------------
(* Sheets of the parser harness *)

\* the row kinds the parser harness builds its sheets from
HarnessKinds ==
    {k \in DOMAIN RowTable : RowTable[k] \in {RMarker, RGood, RShort, RNeg, RNoCode}}

\* the sheets of the parser harness, each given by its rows' kinds
SheetSet == UNION {[1..n -> HarnessKinds] : n \in 0..MaxRows}

----------------------------------------------------------------------------
(* Requests *)

Requests == {"r1", "r2"}

IdleToday == BaseDay
IdleFiles == [s \in DateStrs |-> NoFile]
IdlePresult == [done |-> FALSE, err |-> "none", rows |-> <<>>, objects |-> <<>>]

RunsIdle ==
    /\ files = IdleFiles
    /\ store = {}
    /\ pc = [r \in Requests |-> "idle"]
    /\ target = [r \in Requests |-> BaseDay]
    /\ date_list = [r \in Requests |-> <<>>]
    /\ dlpos = [r \in Requests |-> 0]
    /\ downloaded = [r \in Requests |-> {}]
    /\ objects = [r \in Requests |-> <<>>]
    /\ pending = [r \in Requests |-> <<>>]
    /\ outcome = [r \in Requests |-> "none"]
    /\ raised = [r \in Requests |-> "none"]

ParseIdle == psheet = <<>> /\ presult = IdlePresult

\* a query parameter that was not supplied (None) / supplied with value v
NoneParam == [given |-> FALSE, v |-> <<>>]
Given(v) == [given |-> TRUE, v |-> v]

IdleQuery ==
    [op |-> "none", status |-> 0, dates |-> <<>>, results |-> {}, days |-> 0,
     start_date |-> BaseDay, end_date |-> BaseDay,
     oil_id |-> NoneParam, delivery_type_id |-> NoneParam,
     delivery_basis_id |-> NoneParam]

QueryIdle == qres = IdleQuery

WindowIdle == wtarget = BaseDay /\ wlist = <<>> /\ wdone = FALSE

----------------------------------------------------------------------------
(* Parser harness: __prepare_objects on one bulletin file of one date *)

InitParse ==
    /\ today = IdleToday
    /\ RunsIdle
    /\ WindowIdle
    /\ QueryIdle
    /\ psheet \in SheetSet
    /\ presult = IdlePresult

ParseBulletin ==
    /\ ~presult.done
    /\ LET str_date == FormatDate(today)
           fs == [IdleFiles EXCEPT ![str_date] = File(psheet)]
           got == PrepareObjects(<<str_date>>, fs)
           parsed == ParseSheet(SheetOf(psheet))
       IN  presult' = [done |-> TRUE, err |-> got.err,
                       rows |-> parsed.rows, objects |-> got.objects]
    /\ UNCHANGED <<today, runVars, psheet, wtarget, wlist, wdone, qres>>

NextParse == ParseBulletin

SpecParse == InitParse /\ [][NextParse]_vars

----------------------------------------------------------------------------
(* Window harness: __prepare_date_list for any today and any target date *)

InitWindow ==
    /\ today \in WindowDays
    /\ RunsIdle
    /\ ParseIdle
    /\ QueryIdle
    /\ wtarget \in WindowDays
    /\ wlist = <<>>
    /\ wdone = FALSE

ComputeWindow ==
    /\ ~wdone
    /\ wlist' = PrepareDateList(wtarget, today)
    /\ wdone' = TRUE
    /\ UNCHANGED <<today, runVars, psheet, presult, wtarget, qres>>

NextWindow == ComputeWindow

SpecWindow == InitWindow /\ [][NextWindow]_vars

----------------------------------------------------------------------------
(* The ingestion endpoint GET /?target_date=...                            *)

\* bulletins the remote site serves
BGood == <<2, 1, 2, 3, 2, 5, 4, 8, 9, 2, 2>>
BNoCode == <<1, 2, 6, 2, 2>>
BBadCount == <<1, 2, 7, 2, 2>>

Bulletins == {BGood, BNoCode, BBadCount}

\* rows the table may hold when the service starts
SeedStore ==
    {[id |-> 1, rec |-> BuildRecord(NormalizeRow(SelectCols(RGood)), FormatDate(BaseDay))]}

\* the exception classes `except Exception` catches
IsException(err) ==
    err \in {"ValueError", "TypeError", "IndexError", "ClientError", "SQLAlchemyError",
             "FileNotFoundError"}

\* mutant of Outcome: the handler catches ValueError only
OutcomeCatchesValueError(err) ==
    IF err = "none" THEN "success"
    ELSE IF err = "ValueError" THEN "http400"
    ELSE err

\* lines 154-166: what the caller receives for what the try block raised
Outcome(err) ==
    IF err = "none" THEN "success"
    ELSE IF IsException(err) THEN "http400"
    ELSE err

\* AsyncSession.add_all: the objects join the session's pending list
AddAll(pend, objs) == pend \o objs

\* `async with async_session() as session` exits: close() without commit();
\* the pending objects are discarded and the table keeps its rows
SessionClose(table, pend) == table

\* the date strings of the records in objs
DatesOf(objs) == {FormatDate(objs[i].date) : i \in 1..Len(objs)}

Init ==
    /\ today = IdleToday
    /\ files = IdleFiles
    /\ store \in {{}, SeedStore}
    /\ pc = [r \in Requests |-> "idle"]
    /\ target = [r \in Requests |-> BaseDay]
    /\ date_list = [r \in Requests |-> <<>>]
    /\ dlpos = [r \in Requests |-> 0]
    /\ downloaded = [r \in Requests |-> {}]
    /\ objects = [r \in Requests |-> <<>>]
    /\ pending = [r \in Requests |-> <<>>]
    /\ outcome = [r \in Requests |-> "none"]
    /\ raised = [r \in Requests |-> "none"]
    /\ ParseIdle
    /\ WindowIdle
    /\ QueryIdle

harness == <<today, psheet, presult, wtarget, wlist, wdone, qres>>

\* the request arrives: get_session opens a session, line 153 builds the
\* window, line 156 calls the client
Start(r, t) ==
    /\ pc[r] = "idle"
    /\ target' = [target EXCEPT ![r] = t]
    /\ date_list' = [date_list EXCEPT ![r] = PrepareDateList(t, today)]
    /\ dlpos' = [dlpos EXCEPT ![r] = 1]
    /\ downloaded' = [downloaded EXCEPT ![r] = {}]
    /\ objects' = [objects EXCEPT ![r] = <<>>]
    /\ pending' = [pending EXCEPT ![r] = <<>>]
    /\ outcome' = [outcome EXCEPT ![r] = "none"]
    /\ raised' = [raised EXCEPT ![r] = "none"]
    /\ pc' = [pc EXCEPT ![r] = "downloading"]
    /\ UNCHANGED <<files, store, harness>>

\* SpimexClient.download_spimex_bulletins, one date: the bulletin is written
\* to <date>_oil_data.xls, or the site has none for that date
DownloadOne(r, b) ==
    /\ pc[r] = "downloading"
    /\ dlpos[r] <= Len(date_list[r])
    /\ LET str_date == date_list[r][dlpos[r]]
       IN  /\ files' = IF b.exists THEN [files EXCEPT ![str_date] = b] ELSE files
           /\ downloaded' = IF b.exists
                            THEN [downloaded EXCEPT ![r] = @ \cup {str_date}]
                            ELSE downloaded
    /\ dlpos' = [dlpos EXCEPT ![r] = @ + 1]
    /\ UNCHANGED <<store, pc, target, date_list, objects, pending, outcome, raised,
                   harness>>

\* the client raises inside the try block: lines 160-162, then line 169
DownloadRaises(r) ==
    /\ pc[r] = "downloading"
    /\ raised' = [raised EXCEPT ![r] = "ClientError"]
    /\ outcome' = [outcome EXCEPT ![r] = Outcome("ClientError")]
    /\ files' = RemoveExcel(date_list[r], files)
    /\ pc' = [pc EXCEPT ![r] = "responded"]
    /\ UNCHANGED <<store, target, date_list, dlpos, downloaded, objects, pending,
                   harness>>

\* the client returned: lines 157-169 run without a suspension point
FinishRun(r, addFails) ==
    /\ pc[r] = "downloading"
    /\ dlpos[r] > Len(date_list[r])
    /\ \E got \in {PrepareObjects(date_list[r], files)} :
         LET err == IF got.err # "none" THEN got.err
                    ELSE IF addFails THEN "SQLAlchemyError" ELSE "none"
         IN  /\ objects' = [objects EXCEPT ![r] = IF got.err = "none" THEN got.objects ELSE <<>>]
             /\ pending' = [pending EXCEPT ![r] =
                               IF err = "none" THEN AddAll(@, got.objects) ELSE @]
             /\ raised' = [raised EXCEPT ![r] = err]
             /\ outcome' = [outcome EXCEPT ![r] = Outcome(err)]
    /\ files' = RemoveExcel(date_list[r], files)
    /\ pc' = [pc EXCEPT ![r] = "responded"]
    /\ UNCHANGED <<store, target, date_list, dlpos, downloaded, harness>>

\* the response is out: the get_session dependency leaves its `async with`,
\* and the request with its repository and session objects is gone
CloseSession(r) ==
    /\ pc[r] = "responded"
    /\ store' = SessionClose(store, pending[r])
    /\ pending' = [pending EXCEPT ![r] = <<>>]
    /\ pc' = [pc EXCEPT ![r] = "idle"]
    /\ target' = [target EXCEPT ![r] = BaseDay]
    /\ date_list' = [date_list EXCEPT ![r] = <<>>]
    /\ dlpos' = [dlpos EXCEPT ![r] = 0]
    /\ downloaded' = [downloaded EXCEPT ![r] = {}]
    /\ objects' = [objects EXCEPT ![r] = <<>>]
    /\ outcome' = [outcome EXCEPT ![r] = "none"]
    /\ raised' = [raised EXCEPT ![r] = "none"]
    /\ UNCHANGED <<files, harness>>

Next ==
    \/ \E r \in Requests, t \in AllDates : Start(r, t)
    \/ \E r \in Requests, b \in {File(k) : k \in Bulletins} \cup {NoFile} : DownloadOne(r, b)
    \/ \E r \in Requests : DownloadRaises(r)
    \/ \E r \in Requests, addFails \in BOOLEAN : FinishRun(r, addFails)
    \/ \E r \in Requests : CloseSession(r)

Spec == Init /\ [][Next]_vars

----------------------------------------------------------------------------
(* Properties *)

Max(a, b) == IF a > b THEN a ELSE b

\* the request has left get_spimex_trading_results in this step
Exits(r) == pc[r] = "downloading" /\ pc'[r] = "responded"

\* C1: whenever an ingestion run returns or raises (download failure, parse
\* failure, store failure or success), no file <YYYYMMDD>_oil_data.xls of any
\* date of its window exists: the cleanup has run on that exit path.
C1_CleanupOnEveryExit ==
    [][\A r \in Requests :
          Exits(r) => \A i \in 1..Len(date_list[r]) : ~files'[date_list[r][i]].exists]_vars

\* a run that downloaded bulletins, failed while parsing, and left no file
C1_Witness ==
    \E r \in Requests :
        /\ pc[r] = "responded"
        /\ raised[r] = "ValueError"
        /\ Cardinality(downloaded[r]) = 2
        /\ \A i \in 1..Len(date_list[r]) : ~files[date_list[r][i]].exists

\* C4: a run ends in exactly one of two outcomes: the generic HTTP 400 when
\* anything was raised during download, parsing, building or the store write,
\* the success acknowledgment otherwise.
C4_SuccessOrGenericFailure ==
    \A r \in Requests :
        pc[r] = "responded" =>
            /\ raised[r] # "none" => outcome[r] = "http400"
            /\ raised[r] = "none" => outcome[r] = "success"

\* one run failed while building a record, another one succeeded
C4_Witness ==
    \E r1, r2 \in Requests :
        /\ pc[r1] = "responded" /\ raised[r1] = "TypeError" /\ outcome[r1] = "http400"
        /\ pc[r2] = "responded" /\ outcome[r2] = "success" /\ Len(objects[r2]) > 0

\* the i-th entry of the window is the day i-1 days before today, in "YYYYMMDD"
WindowEntryOk(i) ==
    /\ Len(wlist[i]) = 8
    /\ ValidDate(ParseDate(wlist[i]))
    /\ Ordinal(ParseDate(wlist[i])) = Ordinal(today) - (i - 1)

\* C5 (as amended): the window holds every calendar date from today back
\* through the target date, each once: (today - target).days + 1 dates when
\* the target is not after today, and no date at all when it is.
C5_WindowExact ==
    wdone =>
        /\ Len(wlist) = Max(0, Ordinal(today) - Ordinal(wtarget) + 1)
        /\ \A i \in 1..Len(wlist) : WindowEntryOk(i)

\* a window that crosses the end of February 2024 and the turn of the year
C5_Witness ==
    /\ wdone
    /\ today = [y |-> 2024, m |-> 3, d |-> 1]
    /\ wtarget = [y |-> 2023, m |-> 12, d |-> 31]
    /\ Len(wlist) = 62

\* C5 as stated: the window always holds (today - target).days + 1 dates
C5_Original ==
    wdone => Len(wlist) = Ordinal(today) - Ordinal(wtarget) + 1


\* the requests whose session is closed in this step
Closes(r) == pc[r] = "responded" /\ pc'[r] = "idle"

\* C2 as stated: when a run reported success, its session's end leaves every
\* record it built in the table, as new rows; when it reported failure, the
\* table is left as it was.
C2_AllOrNothing ==
    [][\A r \in Requests :
          Closes(r) =>
              /\ outcome[r] = "success" =>
                    /\ Cardinality(store') = Cardinality(store) + Len(objects[r])
                    /\ \A i \in 1..Len(objects[r]) :
                          \E row \in store' \ store : row.rec = objects[r][i]
              /\ outcome[r] = "http400" => store' = store]_vars

\* the trade dates the table holds rows for
StoredDates == {row.rec.date : row \in store}

\* C3 as stated: a run adds no record for a trade date the table already holds
\* rows for, and no two runs add records for the same trade date.
C3_NoSecondIngestion ==
    \A r \in Requests : \A i \in 1..Len(pending[r]) :
        /\ pending[r][i].date \notin StoredDates
        /\ \A r2 \in Requests \ {r} : \A j \in 1..Len(pending[r2]) :
              pending[r2][j].date # pending[r][i].date

\* C9 as stated: no run is aborted by the building of a record (a TypeError or
\* IndexError of the substring extractions), whatever the product-code cell.
C9_BuildNeverFails ==
    \A r \in Requests : raised[r] \notin {"TypeError", "IndexError"}

----------------------------------------------------------------------------
(* Properties of the parser and the record builder *)

\* the sheet under test
Sheet == SheetOf(psheet)

HasAnchor(df) == \E i \in 1..Len(df) : IsAnchorRow(df[i])

\* zero-based position of the anchor row
AnchorPos(df) ==
    CHOOSE a \in 0..(Len(df) - 1) :
        IsAnchorRow(df[a + 1]) /\ \A b \in 0..(a - 1) : ~IsAnchorRow(df[b + 1])

\* the count the last cell of a sheet row stands for is strictly positive
PositiveCount(row) ==
    LET c == row[Len(row)]
    IN  \/ c.t = "int" /\ c.n > 0
        \/ c.t = "str" /\ IsIntText(c.s) /\ IntOfText(c.s) > 0

\* zero-based positions a+2 .. n-3 of the rows with a strictly positive count
Qualifying(df) ==
    {p \in (AnchorPos(df) + 2)..(Len(df) - 3) : PositiveCount(df[p + 1])}

\* the k-th qualifying position, in sheet order
KthQualifying(df, k) ==
    CHOOSE p \in Qualifying(df) : Cardinality({q \in Qualifying(df) : q < p}) = k - 1

\* the text a source cell of a numeric column is stored as
FieldOf(cell) ==
    IF cell.t = "nan" \/ cell = StrCell(<<"-">>) THEN <<"0">> ELSE PyStr(cell)

\* record o is the record of sheet row `row`
RecordOfRow(o, row) ==
    /\ o.exchange_product_id = row[2].s
    /\ o.exchange_product_name = FieldOf(row[3])
    /\ o.delivery_basis_name = FieldOf(row[4])
    /\ o.volume = FieldOf(row[5])
    /\ o.total = FieldOf(row[6])
    /\ o.count = FieldOf(row[Len(row)])
    /\ o.date = today

\* the text of a record's count field is a number greater than zero
CountFieldPositive(o) == IsIntText(o.count) /\ IntOfText(o.count) > 0

\* C6: no row whose count is zero or negative is in the parser's output, and
\* none is built into a record.
C6_NoNonPositiveCount ==
    presult.done =>
        /\ \A i \in 1..Len(presult.rows) : AsInt(presult.rows[i][6]) > 0
        /\ \A i \in 1..Len(presult.objects) : CountFieldPositive(presult.objects[i])

\* a sheet with a negative-count row and a placeholder-count row in its data
\* range next to a traded row: only the traded row comes out
C6_Witness ==
    /\ presult.done
    /\ psheet = <<1, 3, 5, 3, 1, 3>>
    /\ Len(presult.rows) = 1
    /\ Len(presult.objects) = 1

\* C7: for a sheet with its anchor row at position a and n rows, the records
\* built (when the building completes) are exactly one per row at positions
\* a+2 .. n-3 with a strictly positive count, in sheet order.
C7_ExactlyTheDataRows ==
    (presult.done /\ presult.err = "none" /\ HasAnchor(Sheet)) =>
        /\ Len(presult.objects) = Cardinality(Qualifying(Sheet))
        /\ \A k \in 1..Len(presult.objects) :
              RecordOfRow(presult.objects[k], Sheet[KthQualifying(Sheet, k) + 1])

\* anchor at position 1; traded rows before the anchor, right after it and in
\* the footer yield nothing, the one traded row in between yields one record
C7_Witness ==
    /\ presult.done
    /\ presult.err = "none"
    /\ psheet = <<3, 1, 3, 4, 3, 3>>
    /\ Len(presult.objects) = 1
    /\ presult.objects[1].exchange_product_id = <<"A", "B">>

\* zero-based positions of the rows the parser keeps: the slice the code
\* cuts, restricted to the strictly positive counts
Kept(df) ==
    {p \in (FindTarget(df) + 2)..(Len(df) - 3) : PositiveCount(df[p + 1])}

\* the k-th kept row, in sheet order
KthKept(df, k) ==
    df[(CHOOSE p \in Kept(df) : Cardinality({q \in Kept(df) : q < p}) = k - 1) + 1]

\* cell is the placeholder "-" or missing
PlaceholderOrMissing(cell) == cell.t = "nan" \/ cell = StrCell(<<"-">>)

----------------------------------------------------------------------------
(* Properties of the records the system holds *)

\* the derived fields of record o are the substrings of its product code at
\* the fixed positions: characters 0-3, characters 4-6, the last character
PositionalLaw(o) ==
    LET code == o.exchange_product_id
    IN  /\ Len(code) >= 1
        /\ o.oil_id = [i \in 1..Min(4, Len(code)) |-> code[i]]
        /\ o.delivery_basis_id = [i \in 1..Max(0, Min(7, Len(code)) - 4) |-> code[4 + i]]
        /\ o.delivery_type_id = <<code[Len(code)]>>
        /\ Len(code) >= 5 =>
              /\ Len(o.oil_id) = 4
              /\ Len(o.delivery_basis_id) = Min(7, Len(code)) - 4

\* every record a request has built or added to its session, and every row
\* of the table, obeys the positional law
AllRecordsLawful ==
    /\ \A r \in Requests : \A i \in 1..Len(objects[r]) : PositionalLaw(objects[r][i])
    /\ \A r \in Requests : \A i \in 1..Len(pending[r]) : PositionalLaw(pending[r][i])
    /\ \A row \in store : PositionalLaw(row.rec)

\* a step rewrites no row of the table and no record of a request that is
\* still there after the step
RecordsUntouched ==
    /\ store \subseteq store'
    /\ \A r \in Requests :
          (pc[r] = "responded" /\ pc'[r] = "responded") =>
              objects'[r] = objects[r] /\ pending'[r] = pending[r]

\* C8: every record built by a run has oil_id = the first 4 characters of
\* exchange_product_id, delivery_basis_id = its characters 4..6 (zero-based)
\* and delivery_type_id = its last character, and no operation of the system
\* changes these fields afterwards.
C8_DerivedFieldsFollowTheCode ==
    []AllRecordsLawful /\ [][RecordsUntouched]_vars

\* a run that built the records of codes of 8, 2, 5 and 7 characters
C8_Witness ==
    \E r \in Requests :
        /\ pc[r] = "responded"
        /\ Len(objects[r]) = 4
        /\ Len(objects[r][1].exchange_product_id) = 8
        /\ objects[r][1].delivery_basis_id = <<"N", "V", "Y">>
        /\ objects[r][2].delivery_basis_id = <<>>
        /\ objects[r][3].delivery_basis_id = <<"J">>
        /\ objects[r][4].delivery_type_id = <<"M">>
        /\ pending[r] = objects[r]

----------------------------------------------------------------------------
(* Properties of the handling of missing bulletin files *)

\* the dates of the window of r whose file exists in the working directory
PresentDates(r) == SelectSeq(date_list[r], LAMBDA d : files[d].exists)

\* the request leaves get_spimex_trading_results after the client returned
\* and the store write did not fail
ExitsAfterParse(r) ==
    /\ Exits(r)
    /\ raised'[r] \notin {"ClientError", "SQLAlchemyError"}

\* C11: a date of the window that has no bulletin file is skipped without
\* failing the batch: the run builds exactly the records of the dates that
\* have a file, in window order, none for a date without file, and reports
\* success when those files parse; when no date of the window has a file the
\* run builds zero records and reports success.
C11_MissingFilesAreSkipped ==
    [][\A r \in Requests :
          ExitsAfterParse(r) =>
              LET expected == PrepareObjects(PresentDates(r), files)
              IN  /\ raised'[r] # "FileNotFoundError"
                  /\ raised'[r] = expected.err
                  /\ expected.err = "none" =>
                        /\ objects'[r] = expected.objects
                        /\ outcome'[r] = "success"
                  /\ \A i \in 1..Len(objects'[r]) :
                        files[FormatDate(objects'[r][i].date)].exists
                  /\ PresentDates(r) = <<>> =>
                        /\ objects'[r] = <<>>
                        /\ outcome'[r] = "success"]_vars

\* one run succeeded with the records of the one date of its two-day window
\* that had a bulletin, another run succeeded with no bulletin at all
C11_Witness ==
    \E r1, r2 \in Requests :
        /\ pc[r1] = "responded" /\ outcome[r1] = "success"
        /\ Len(date_list[r1]) = 2 /\ Cardinality(downloaded[r1]) = 1
        /\ Len(objects[r1]) = 4
        /\ pc[r2] = "responded" /\ outcome[r2] = "success"
        /\ Len(date_list[r2]) >= 1 /\ downloaded[r2] = {}
        /\ objects[r2] = <<>>

----------------------------------------------------------------------------
(* The read side: GET /last_trading_dates, /last_trading_results,          *)
(* /trading_results_in_period                                              *)

\* largest value of the query parameter `days` the model sends
MaxDays == 5

RECURSIVE DayBefore(_, _)
\* dt - timedelta(days=k)
DayBefore(dt, k) == IF k <= 0 THEN dt ELSE DayBefore(PrevDay(dt), k - 1)

\* a row of the table built from a bulletin row of the day `back` days ago
StoreRow(id, row, back) ==
    [id |-> id,
     rec |-> BuildRecord(NormalizeRow(SelectCols(row)), FormatDate(DayBefore(BaseDay, back)))]

\* the rows the table is populated from; rows 1 and 7 differ in id only
StorePool ==
    {StoreRow(1, RGood, 0), StoreRow(2, RSeven, 0), StoreRow(3, RGood, 1),
     StoreRow(4, RFive, 1), StoreRow(5, RSeven, 3), StoreRow(6, RGood, 6),
     StoreRow(7, RGood, 0)}

\* the values of the query parameters the model sends
DaysParams == (0 - 1)..MaxDays
PeriodDays == {DayBefore(BaseDay, k) : k \in {0, 1, 3, 7}}
OilParams == {NoneParam, Given(<<>>), Given(<<"A", "1", "0", "0">>),
              Given(<<"D", "T", "0", "1">>)}
TypeParams == {NoneParam, Given(<<"F">>), Given(<<"M">>)}
BasisParams == {NoneParam, Given(<<"N", "V", "Y">>)}

\* Python truthiness of an optional str parameter: `if oil_id:`
Truthy(param) == param.given /\ param.v # <<>>

\* CRUDSpimexTradingResults.__add_filters_to_query
AddFiltersToQuery(rows, oil_id, delivery_type_id, delivery_basis_id) ==
    {row \in rows :
        /\ Truthy(oil_id) => row.rec.oil_id = oil_id.v
        /\ Truthy(delivery_type_id) => row.rec.delivery_type_id = delivery_type_id.v
        /\ Truthy(delivery_basis_id) => row.rec.delivery_basis_id = delivery_basis_id.v}

\* select(SpimexTradingResults).filter_by(date=date): the rows of which
\* limit(1) delivers one, if there is any
FetchOneTradingResultByDate(table, date) == {row \in table : row.rec.date = date}

\* TradingResultsRepo.__check_date
CheckDate(table, date_to_check) == FetchOneTradingResultByDate(table, date_to_check) # {}

RECURSIVE DatesForPeriodLoop(_, _, _)
\* lines 52-54: `left` iterations of range(days) remain
DatesForPeriodLoop(left, current_date, acc) ==
    IF left <= 0 THEN acc
    ELSE DatesForPeriodLoop(left - 1, PrevDay(current_date), Append(acc, current_date))

\* mutant of GetDatesForPeriod: the date is stepped back before it is appended
GetDatesForPeriodFromYesterday(days, now) == DatesForPeriodLoop(days, PrevDay(now), <<>>)

\* TradingResultsRepo.__get_dates_for_period
GetDatesForPeriod(days, now) == DatesForPeriodLoop(days, now, <<>>)

\* TradingResultsRepo.get_last_trading_dates
GetLastTradingDates(table, days, now) ==
    SelectSeq(GetDatesForPeriod(days, now), LAMBDA check_date : CheckDate(table, check_date))

\* select(date.distinct()).order_by(desc(date)), first element
LastDate(table) ==
    CHOOSE d \in {row.rec.date : row \in table} :
        \A row \in table : DateGE(d, row.rec.date)

\* mutant of GetLastResults: the test for an empty table is missing
GetLastResultsNoEmptyTest(table, oil_id, delivery_type_id, delivery_basis_id) ==
    [status |-> 200,
     results |-> IF table = {} THEN {}
                 ELSE AddFiltersToQuery({row \in table : row.rec.date = LastDate(table)},
                                        oil_id, delivery_type_id, delivery_basis_id)]

\* CRUDSpimexTradingResults.get_last_results
GetLastResults(table, oil_id, delivery_type_id, delivery_basis_id) ==
    IF {row.rec.date : row \in table} = {}
    THEN [status |-> 404, results |-> {}]
    ELSE [status |-> 200,
          results |-> AddFiltersToQuery({row \in table : row.rec.date = LastDate(table)},
                                        oil_id, delivery_type_id, delivery_basis_id)]

\* CRUDSpimexTradingResults.get_trading_results_in_period
GetTradingResultsInPeriod(table, start_date, end_date, oil_id, delivery_type_id, delivery_basis_id) ==
    [status |-> 200,
     results |-> AddFiltersToQuery(
                     {row \in table : /\ DateGE(row.rec.date, start_date)
                                      /\ DateGE(end_date, row.rec.date)},
                     oil_id, delivery_type_id, delivery_basis_id)]

InitQuery ==
    /\ today = IdleToday
    /\ files = IdleFiles
    /\ store \in SUBSET StorePool
    /\ pc = [r \in Requests |-> "idle"]
    /\ target = [r \in Requests |-> BaseDay]
    /\ date_list = [r \in Requests |-> <<>>]
    /\ dlpos = [r \in Requests |-> 0]
    /\ downloaded = [r \in Requests |-> {}]
    /\ objects = [r \in Requests |-> <<>>]
    /\ pending = [r \in Requests |-> <<>>]
    /\ outcome = [r \in Requests |-> "none"]
    /\ raised = [r \in Requests |-> "none"]
    /\ ParseIdle
    /\ WindowIdle
    /\ QueryIdle

queryFrame == <<today, runVars, psheet, presult, wtarget, wlist, wdone>>

\* GET /last_trading_dates?days=...
QueryLastTradingDates(days) ==
    /\ qres.op = "none"
    /\ qres' = [IdleQuery EXCEPT !.op = "last_trading_dates", !.days = days,
                                 !.status = 200,
                                 !.dates = GetLastTradingDates(store, days, today)]
    /\ UNCHANGED queryFrame

\* GET /last_trading_results?oil_id=...&delivery_type_id=...&delivery_basis_id=...
QueryLastTradingResults(oil_id, delivery_type_id, delivery_basis_id) ==
    /\ qres.op = "none"
    /\ LET got == GetLastResults(store, oil_id, delivery_type_id, delivery_basis_id)
       IN  qres' = [IdleQuery EXCEPT !.op = "last_trading_results",
                                     !.oil_id = oil_id,
                                     !.delivery_type_id = delivery_type_id,
                                     !.delivery_basis_id = delivery_basis_id,
                                     !.status = got.status, !.results = got.results]
    /\ UNCHANGED queryFrame

\* GET /trading_results_in_period?start_date=...&end_date=...&...
QueryTradingResultsInPeriod(start_date, end_date, oil_id, delivery_type_id, delivery_basis_id) ==
    /\ qres.op = "none"
    /\ LET got == GetTradingResultsInPeriod(store, start_date, end_date, oil_id,
                                            delivery_type_id, delivery_basis_id)
       IN  qres' = [IdleQuery EXCEPT !.op = "trading_results_in_period",
                                     !.start_date = start_date, !.end_date = end_date,
                                     !.oil_id = oil_id,
                                     !.delivery_type_id = delivery_type_id,
                                     !.delivery_basis_id = delivery_basis_id,
                                     !.status = got.status, !.results = got.results]
    /\ UNCHANGED queryFrame

\* the response is out and the request is gone
QueryDone ==
    /\ qres.op # "none"
    /\ qres' = IdleQuery
    /\ UNCHANGED queryFrame

NextQuery ==
    \/ \E days \in DaysParams : QueryLastTradingDates(days)
    \/ \E o \in OilParams, t \in TypeParams, b \in BasisParams :
          QueryLastTradingResults(o, t, b)
    \/ \E sd \in PeriodDays, ed \in PeriodDays,
          o \in OilParams, t \in TypeParams, b \in BasisParams :
          QueryTradingResultsInPeriod(sd, ed, o, t, b)
    \/ QueryDone

SpecQuery == InitQuery /\ [][NextQuery]_vars

----------------------------------------------------------------------------
(* Properties of the read side *)

\* the table holds a row for the calendar day `back` days before today
HasRecordsOn(back) ==
    \E row \in store : Ordinal(row.rec.date) = Ordinal(today) - back

\* C12: get_last_trading_dates(N) returns exactly the dates among the last N
\* calendar days (today, today-1, ..., today-(N-1)) for which the table holds
\* at least one row: every such date once, no date without rows, no date
\* outside that range.
C12_ExactlyTheDatesWithRecords ==
    qres.op = "last_trading_dates" =>
        /\ qres.status = 200
        /\ \A i \in 1..Len(qres.dates) :
              \E back \in 0..(qres.days - 1) :
                  /\ Ordinal(qres.dates[i]) = Ordinal(today) - back
                  /\ ValidDate(qres.dates[i])
                  /\ HasRecordsOn(back)
        /\ \A back \in 0..(qres.days - 1) :
              HasRecordsOn(back) =>
                  \E i \in 1..Len(qres.dates) :
                      Ordinal(qres.dates[i]) = Ordinal(today) - back
        /\ \A i, j \in 1..Len(qres.dates) : i # j => qres.dates[i] # qres.dates[j]

\* days = 5 while only two of the last five days have rows (one of them
\* several), and the table also holds rows of an older day
C12_Witness ==
    /\ qres.op = "last_trading_dates"
    /\ qres.days = 5
    /\ Len(qres.dates) = 2
    /\ Cardinality({row \in store : row.rec.date = today}) = 3
    /\ \E row \in store : Ordinal(row.rec.date) = Ordinal(today) - 6

\* the parameter was supplied with a non-empty value
Supplied(param) == param.given /\ Len(param.v) > 0

\* row is of the greatest trade date of the table and matches the filters of
\* the query in flight
IsLastAndMatches(row) ==
    /\ \A other \in store : Ordinal(row.rec.date) >= Ordinal(other.rec.date)
    /\ Supplied(qres.oil_id) => row.rec.oil_id = qres.oil_id.v
    /\ Supplied(qres.delivery_type_id) => row.rec.delivery_type_id = qres.delivery_type_id.v
    /\ Supplied(qres.delivery_basis_id) => row.rec.delivery_basis_id = qres.delivery_basis_id.v

\* get_last_trading_results over a table with rows returns the rows of the
\* greatest trade date that match every supplied filter
LastResultsLaw ==
    (qres.op = "last_trading_results" /\ store # {}) =>
        /\ qres.status = 200
        /\ \A row \in store : row \in qres.results <=> IsLastAndMatches(row)
        /\ qres.results \subseteq store

\* C13 as stated: every read query over an empty table answers with the
\* "store empty" error (404) instead of an empty list.
C13_Original ==
    /\ (qres.op # "none" /\ store = {}) => qres.status = 404
    /\ LastResultsLaw

\* C13 (as amended): over an empty table get_last_trading_results answers
\* with the "store empty" error (404) whatever the filters, while
\* get_trading_results_in_period and get_last_trading_dates answer with an
\* empty list; over a table with rows get_last_trading_results returns the
\* rows of the greatest trade date that match every filter supplied with a
\* non-empty value.
C13_EmptyStoreSignalledByLastResults ==
    /\ (qres.op = "last_trading_results" /\ store = {}) =>
          qres.status = 404 /\ qres.results = {}
    /\ (qres.op \in {"trading_results_in_period", "last_trading_dates"} /\ store = {}) =>
          qres.status = 200 /\ qres.results = {} /\ qres.dates = <<>>
    /\ LastResultsLaw

\* get_last_trading_results with all three filters supplied, over an empty table
C13_Witness ==
    /\ store = {}
    /\ qres.op = "last_trading_results"
    /\ Supplied(qres.oil_id)
    /\ Supplied(qres.delivery_type_id)
    /\ Supplied(qres.delivery_basis_id)
    /\ qres.status = 404

----------------------------------------------------------------------------
(* Properties of interleaved ingestion runs *)

\* C14 as stated: when runs with overlapping windows interleave, a run that
\* reports success has read every bulletin file that was downloaded for its
\* window: each such file is still in the working directory when the run
\* parses, no cleanup of another run has removed it.
C14_NoBulletinLostToAnotherRun ==
    [][\A r \in Requests :
          (Exits(r) /\ outcome'[r] = "success") =>
              \A d \in downloaded[r] : files[d].exists]_vars

====
